---- MODULE Spec2Model ----
(***************************************************************************)
(* Model of the raft cluster test fixture (include/raft/fixture.h): the    *)
(* shared virtual clock, the per-server in-memory I/O backends (append     *)
(* queue, send queue, transit queue, tick timer, fault schedule and        *)
(* counters), the connectivity matrix, the control surface and the         *)
(* single-event step engine.                                               *)
(*                                                                         *)
(* The Raft instances are external collaborators: their I/O submissions    *)
(* are the nondeterministic actions SubmitSend and SubmitAppend.           *)
(*                                                                         *)
(* The header documents the operations; the bodies of the step engine and  *)
(* of the I/O backend are not part of the header and are modelled from the *)
(* design text (sections 3, 4.C, 4.E and 4.H).  Transit entries are kept   *)
(* by the backend of the sending server, each naming its destination       *)
(* (section 3), so net_t of a server ranges over the messages it sent.     *)
(***************************************************************************)
EXTENDS Integers, Sequences, FiniteSets

\* ------------------------------------------------------------ bounds
MaxN == 3
InitN == 2
MaxTime == 15
MaxMsgs == 2
MaxAppends == 2
MaxCtl == 2
MaxOps == 3
TickPeriod == 10
MaxTerm == 2
MaxLeaderTime == 30

\* --------------------------------------------------- program constants
RAFT_FIXTURE_MAX_SERVERS == 8
RAFT_FIXTURE_TICK == 1
RAFT_FIXTURE_NETWORK == 2
RAFT_FIXTURE_DISK == 3
DefaultNetworkLatency == 15
DefaultDiskLatency == 10
DefaultElectionTimeoutBase == 1000
DefaultElectionTimeoutStep == 100

Slots == 0 .. (MaxN - 1)
MsgIds == 1 .. MaxMsgs
AppendIds == 1 .. MaxAppends
NetLatencies == {0, 1}
DiskLatencies == {0, 3}
ElectionTimeouts == {50}
FaultDelays == {-1, 0, 1}
FaultRepeats == {1}
RaftStates == {"follower", "leader"}
Terms == 1 .. MaxTerm
Logs == {<< >>, << 1 >>, << 2 >>, << 1, 1 >>}

VARIABLES
    time,          \* raft_fixture.time
    n,             \* raft_fixture.n
    alive,         \* raft_fixture_server.alive, per slot
    armed,         \* whether the tick timer of the server's backend is armed
    next_expiry,   \* tick timer: next expiry
    election_timeout,
    network_latency,
    disk_latency,
    conn,          \* connectivity matrix: conn[i][j] is the state of edge i->j
    sendq,         \* per server: sends being written
    transit,       \* per server: messages it sent whose send has completed
    appendq,       \* per server: pending appends
    fault,         \* per server: fault schedule [delay, repeat], with the
                   \* arguments of the last io_fault call and the number
                   \* of I/O submissions since
    n_send,
    n_recv,
    event,         \* raft_fixture.event: the last event
    fired,         \* the callbacks invoked by the most recent step, in order
    rc,            \* outcome of the most recent synchronous I/O submission
    mstate,        \* per message id: where the message is
    nmsg,          \* number of sends submitted so far
    nappend,       \* number of appends submitted so far
    nctl,          \* number of control-surface calls so far
    bootstrapped,  \* whether the servers were bootstrapped
    raft_state,    \* per server: the state its Raft instance reports
    raft_term,     \* per server: the current term of its Raft instance
    raft_log,      \* per server: the log of its Raft instance (entry terms)
    leader_id,     \* raft_fixture.leader_id: id of the stable leader, or 0
    log,           \* raft_fixture.log: copy of the leader's log
    fatal,         \* the invariant violation that aborted the run, if any
    until          \* the call to step_until in progress or returned, if any

vars == << time, n, alive, armed, next_expiry, election_timeout,
           network_latency, disk_latency, conn, sendq, transit, appendq,
           fault, n_send, n_recv, event, fired, rc, mstate, nmsg, nappend,
           nctl, bootstrapped, raft_state, raft_term, raft_log, leader_id,
           log, fatal, until >>

\* What the control surface and the I/O submissions leave alone: the Raft
\* instances, the detected leader and the scenario driver.
raftVars == << bootstrapped, raft_state, raft_term, raft_log, leader_id, log,
               fatal, until >>

ioVars == << sendq, transit, appendq, fault, n_send, n_recv, mstate, nmsg,
             nappend >>

Servers == 0 .. (n - 1)

\* The calls made so far by the test and by the Raft instances.
OpsLeft == nctl + nmsg + nappend < MaxOps

\* ------------------------------------------------------------ helpers
DefaultElectionTimeout(i) ==
    DefaultElectionTimeoutBase + i * DefaultElectionTimeoutStep

Half(msecs) == msecs \div 2

MinOf(S) == CHOOSE x \in S : \A y \in S : x <= y

Remove(q, k) == [x \in 1 .. (Len(q) - 1) |-> IF x < k THEN q[x] ELSE q[x + 1]]

\* The lowest scheduled time of a non-empty queue, and the first entry
\* holding it.
MinAt(q) == MinOf({q[k].at : k \in 1 .. Len(q)})

FirstAt(q) == MinOf({k \in 1 .. Len(q) : q[k].at = MinAt(q)})

NoCallback == << >>

\* No call to step_until was made.
NoUntil ==
    [phase |-> "idle", start |-> 0, max_msecs |-> 0, arg |-> 0,
     result |-> FALSE]

\* The fault schedule of a backend on which no fault was injected.
NoFault ==
    [delay |-> -1, repeat |-> 0, set_delay |-> -1, set_repeat |-> 0,
     since |-> 0]

Callback(cb, i, id, status, src, sub, lat) ==
    [cb |-> cb, server |-> i, id |-> id, status |-> status, src |-> src,
     sub |-> sub, lat |-> lat]

\* ------------------------------------------------------- construction
Init ==
    /\ time = 0
    /\ n = InitN
    /\ alive = [i \in Slots |-> i < InitN]
    /\ armed = [i \in Slots |-> FALSE]
    /\ next_expiry = [i \in Slots |-> 0]
    /\ election_timeout = [i \in Slots |-> DefaultElectionTimeout(i)]
    /\ network_latency = [i \in Slots |-> DefaultNetworkLatency]
    /\ disk_latency = [i \in Slots |-> DefaultDiskLatency]
    /\ conn = [i \in Slots |-> [j \in Slots |-> "connected"]]
    /\ sendq = [i \in Slots |-> << >>]
    /\ transit = [i \in Slots |-> << >>]
    /\ appendq = [i \in Slots |-> << >>]
    /\ fault = [i \in Slots |-> NoFault]
    /\ n_send = [i \in Slots |-> 0]
    /\ n_recv = [i \in Slots |-> 0]
    /\ event = [server_index |-> 0, type |-> 0]
    /\ fired = NoCallback
    /\ rc = [op |-> "none", server |-> 0, dest |-> 0, code |-> "ok"]
    /\ mstate = [m \in MsgIds |-> "none"]
    /\ nmsg = 0
    /\ nappend = 0
    /\ nctl = 0
    /\ bootstrapped = FALSE
    /\ raft_state = [i \in Slots |-> "follower"]
    /\ raft_term = [i \in Slots |-> 0]
    /\ raft_log = [i \in Slots |-> << >>]
    /\ leader_id = 0
    /\ log = << >>
    /\ fatal = "none"
    /\ until = NoUntil

\* ---------------------------------------------------- control surface
\* raft_fixture_start: start all servers; each started backend arms its
\* tick timer.
Start ==
    /\ \A i \in Servers : ~armed[i]
    /\ armed' = [i \in Slots |-> i \in Servers]
    /\ next_expiry' = [i \in Slots |-> IF i \in Servers THEN time + TickPeriod
                                       ELSE next_expiry[i]]
    /\ UNCHANGED << time, n, alive, election_timeout, network_latency,
                    disk_latency, conn, event, fired, rc, nctl >>
    /\ UNCHANGED ioVars
    /\ UNCHANGED raftVars

CtlFrame ==
    /\ nctl < MaxCtl
    /\ OpsLeft
    /\ nctl' = nctl + 1
    /\ UNCHANGED << time, n, event, fired, rc >>
    /\ UNCHANGED raftVars

SetEdge(i, j, state) == [conn EXCEPT ![i][j] = state]

raft_fixture_disconnect(i, j) ==
    /\ CtlFrame
    /\ conn' = SetEdge(i, j, "disconnected")
    /\ UNCHANGED << alive, armed, next_expiry, election_timeout,
                    network_latency, disk_latency >>
    /\ UNCHANGED ioVars

raft_fixture_reconnect(i, j) ==
    /\ CtlFrame
    /\ conn[i][j] = "disconnected"
    /\ conn' = SetEdge(i, j, "connected")
    /\ UNCHANGED << alive, armed, next_expiry, election_timeout,
                    network_latency, disk_latency >>
    /\ UNCHANGED ioVars

raft_fixture_saturate(i, j) ==
    /\ CtlFrame
    /\ conn' = SetEdge(i, j, "saturated")
    /\ UNCHANGED << alive, armed, next_expiry, election_timeout,
                    network_latency, disk_latency >>
    /\ UNCHANGED ioVars

raft_fixture_saturated(i, j) == conn[i][j] = "saturated"

raft_fixture_desaturate(i, j) ==
    /\ CtlFrame
    /\ raft_fixture_saturated(i, j)
    /\ conn' = SetEdge(i, j, "connected")
    /\ UNCHANGED << alive, armed, next_expiry, election_timeout,
                    network_latency, disk_latency >>
    /\ UNCHANGED ioVars

raft_fixture_alive(i) == alive[i]

raft_fixture_time == time

raft_fixture_kill(i) ==
    /\ CtlFrame
    /\ alive[i]
    /\ alive' = [alive EXCEPT ![i] = FALSE]
    /\ UNCHANGED << armed, next_expiry, election_timeout, network_latency,
                    disk_latency, conn >>
    /\ UNCHANGED ioVars

\* The new server is connected to all others, not bootstrapped and not
\* started: its tick timer is not armed.
raft_fixture_grow ==
    /\ nctl < MaxCtl
    /\ OpsLeft
    /\ n < MaxN
    /\ n < RAFT_FIXTURE_MAX_SERVERS
    /\ n' = n + 1
    /\ alive' = [alive EXCEPT ![n] = TRUE]
    /\ conn' = [i \in Slots |-> [j \in Slots |->
                    IF i = n \/ j = n THEN "connected" ELSE conn[i][j]]]
    /\ nctl' = nctl + 1
    /\ UNCHANGED << time, armed, next_expiry, election_timeout,
                    network_latency, disk_latency, event, fired, rc >>
    /\ UNCHANGED ioVars
    /\ UNCHANGED raftVars

raft_fixture_set_randomized_election_timeout(i, msecs) ==
    /\ CtlFrame
    /\ election_timeout' = [election_timeout EXCEPT ![i] = msecs]
    /\ UNCHANGED << alive, armed, next_expiry, network_latency, disk_latency,
                    conn >>
    /\ UNCHANGED ioVars

raft_fixture_set_network_latency(i, msecs) ==
    /\ CtlFrame
    /\ network_latency' = [network_latency EXCEPT ![i] = msecs]
    /\ UNCHANGED << alive, armed, next_expiry, election_timeout, disk_latency,
                    conn >>
    /\ UNCHANGED ioVars

raft_fixture_set_disk_latency(i, msecs) ==
    /\ CtlFrame
    /\ disk_latency' = [disk_latency EXCEPT ![i] = msecs]
    /\ UNCHANGED << alive, armed, next_expiry, election_timeout,
                    network_latency, conn >>
    /\ UNCHANGED ioVars

raft_fixture_io_fault(i, delay, repeat) ==
    /\ CtlFrame
    /\ fault' = [fault EXCEPT ![i] =
           [delay |-> delay, repeat |-> repeat, set_delay |-> delay,
            set_repeat |-> repeat, since |-> 0]]
    /\ UNCHANGED << alive, armed, next_expiry, election_timeout,
                    network_latency, disk_latency, conn >>
    /\ UNCHANGED << sendq, transit, appendq, n_send, n_recv, mstate, nmsg,
                    nappend >>

raft_fixture_n_send_WithPending(i) == n_send[i] + Len(sendq[i])

\* The number of messages the i'th server has successfully sent so far.
raft_fixture_n_send(i) == n_send[i]

raft_fixture_n_recv(i) == n_recv[i]

\* ------------------------------------------------- in-memory I/O backend
\* The fault schedule, consulted by each I/O submission: the next `delay`
\* submissions succeed, the following `repeat` fail, then faults are
\* suppressed again; delay = -1 disables.
FaultHit_WhileCounting(f) == f.delay >= 0 /\ f.repeat > 0

FaultHit(f) == f.delay = 0 /\ f.repeat > 0

FaultCount(f) ==
    IF f.delay < 0 THEN f
    ELSE IF f.delay > 0 THEN [f EXCEPT !.delay = f.delay - 1]
    ELSE IF f.repeat > 1 THEN [f EXCEPT !.repeat = f.repeat - 1]
    ELSE [f EXCEPT !.delay = -1, !.repeat = 0]

FaultTick(f) == [FaultCount(f) EXCEPT !.since = f.since + 1]

\* submit_send: fails synchronously on a disconnected edge; otherwise the
\* message enters the send queue, its write completing after half the
\* network latency.
SendAdmitted_OnlyConnected(i, j) == conn[i][j] = "connected"

SendAdmitted(i, j) == conn[i][j] # "disconnected"

SendCompletionTime(i) == time + Half(network_latency[i])

SubmitSend_Direct(i, j) ==
    /\ alive[i] /\ armed[i]
    /\ j \in Servers /\ j # i
    /\ nmsg < MaxMsgs
    /\ OpsLeft
    /\ nmsg' = nmsg + 1
    /\ conn[i][j] # "disconnected"
    /\ sendq' = [sendq EXCEPT ![i] = Append(@,
           [id |-> nmsg + 1, dest |-> j, at |-> SendCompletionTime(i),
            sub |-> time, lat |-> network_latency[i]])]
    /\ transit' = [transit EXCEPT ![i] = Append(@,
           [id |-> nmsg + 1, dest |-> j,
            at |-> SendCompletionTime(i) + Half(network_latency[i]),
            sub |-> time, lat |-> network_latency[i]])]
    /\ mstate' = [mstate EXCEPT ![nmsg + 1] = "sending"]
    /\ rc' = [op |-> "send", server |-> i, dest |-> j, code |-> "ok"]
    /\ UNCHANGED << time, n, alive, armed, next_expiry, election_timeout,
                    network_latency, disk_latency, conn, appendq,
                    fault, n_send, n_recv, event, fired, nappend, nctl >>
    /\ UNCHANGED raftVars

SubmitSend(i, j) ==
    /\ alive[i] /\ armed[i]
    /\ j \in Servers /\ j # i
    /\ nmsg < MaxMsgs
    /\ OpsLeft
    /\ nmsg' = nmsg + 1
    /\ IF SendAdmitted(i, j)
       THEN /\ sendq' = [sendq EXCEPT ![i] = Append(@,
                   [id |-> nmsg + 1, dest |-> j, at |-> SendCompletionTime(i),
                    sub |-> time, lat |-> network_latency[i]])]
            /\ mstate' = [mstate EXCEPT ![nmsg + 1] = "sending"]
            /\ rc' = [op |-> "send", server |-> i, dest |-> j, code |-> "ok"]
       ELSE /\ sendq' = sendq
            /\ mstate' = [mstate EXCEPT ![nmsg + 1] = "rejected"]
            /\ rc' = [op |-> "send", server |-> i, dest |-> j,
                      code |-> "RAFT_NOCONNECTION"]
    /\ UNCHANGED << time, n, alive, armed, next_expiry, election_timeout,
                    network_latency, disk_latency, conn, transit, appendq,
                    fault, n_send, n_recv, event, fired, nappend, nctl >>
    /\ UNCHANGED raftVars

\* submit_append: completes after the disk latency; on a fault hit it is
\* enqueued to complete at the current time, marked as failing.
DiskCompletionTime_NoClock(i) == disk_latency[i]

DiskCompletionTime_DefaultLatency(i) == time + DefaultDiskLatency

\* Each append request takes the disk latency of its server to complete.
DiskCompletionTime(i) == time + disk_latency[i]

AppendCompletionTime(i) ==
    IF FaultHit(fault[i]) THEN time ELSE DiskCompletionTime(i)

SubmitAppend(i) ==
    /\ alive[i] /\ armed[i]
    /\ nappend < MaxAppends
    /\ OpsLeft
    /\ nappend' = nappend + 1
    /\ appendq' = [appendq EXCEPT ![i] = Append(@,
           [id |-> nappend + 1, at |-> AppendCompletionTime(i),
            sub |-> time, lat |-> disk_latency[i],
            failing |-> FaultHit(fault[i])])]
    /\ fault' = [fault EXCEPT ![i] = FaultTick(@)]
    /\ rc' = [op |-> "append", server |-> i, dest |-> i, code |-> "ok"]
    /\ UNCHANGED << time, n, alive, armed, next_expiry, election_timeout,
                    network_latency, disk_latency, conn, sendq, transit,
                    n_send, n_recv, event, fired, mstate, nmsg, nctl >>
    /\ UNCHANGED raftVars

\* A killed server admits no new I/O submission: the request of its Raft
\* instance is rejected synchronously and nothing is queued.
SubmitRejected(i, op) ==
    /\ ~alive[i] /\ armed[i]
    /\ nctl < MaxCtl
    /\ OpsLeft
    /\ nctl' = nctl + 1
    /\ rc' = [op |-> op, server |-> i, dest |-> i, code |-> "rejected"]
    /\ UNCHANGED << time, n, alive, armed, next_expiry, election_timeout,
                    network_latency, disk_latency, conn, event, fired >>
    /\ UNCHANGED ioVars
    /\ UNCHANGED raftVars

\* ------------------------------------------------------------ step engine
EdgeDropped_OnlyDisconnected(i, j) == conn[i][j] = "disconnected"

\* Messages between disconnected servers and on a saturated connection are
\* dropped.
EdgeDropped(i, j) == conn[i][j] \in {"disconnected", "saturated"}

\* The transit entries of server i that take part in delivery scheduling:
\* entries on a dropped edge are removed by the scan and do not participate.
Scheduled(i) == SelectSeq(transit[i], LAMBDA m : ~EdgeDropped(i, m.dest))

PurgedIds ==
    {m \in MsgIds : \E i \in Slots : \E k \in 1 .. Len(transit[i]) :
        transit[i][k].id = m /\ EdgeDropped(i, transit[i][k].dest)}

\* Phase 2 candidates: for each alive server its tick expiry (tick_t), and
\* for each server the lowest completion time of its append queue (disk_t)
\* and the lowest delivery time of its scheduled transit entries (net_t).
\* A dead server does not tick (tick_t is infinite), while the requests it
\* had submitted run to completion.
TickEvents ==
    {[server |-> i, type |-> RAFT_FIXTURE_TICK, at |-> next_expiry[i]] :
        i \in {s \in Servers : alive[s] /\ armed[s]}}

DiskEvents ==
    {[server |-> i, type |-> RAFT_FIXTURE_DISK, at |-> MinAt(appendq[i])] :
        i \in {s \in Servers : appendq[s] # << >>}}

NetworkEvents ==
    {[server |-> i, type |-> RAFT_FIXTURE_NETWORK, at |-> MinAt(Scheduled(i))] :
        i \in {s \in Servers : Scheduled(s) # << >>}}

Phase2Events == TickEvents \cup DiskEvents \cup NetworkEvents

KindRank_DiskFirst(type) ==
    CASE type = RAFT_FIXTURE_DISK -> 0
      [] type = RAFT_FIXTURE_TICK -> 1
      [] type = RAFT_FIXTURE_NETWORK -> 2

KindRank_TickFirstOnly(type) ==
    CASE type = RAFT_FIXTURE_TICK -> 0
      [] type = RAFT_FIXTURE_DISK -> 1
      [] type = RAFT_FIXTURE_NETWORK -> 1

\* Among the kinds pending on one server: TICK > DISK > NETWORK.
KindRank(type) ==
    CASE type = RAFT_FIXTURE_TICK -> 0
      [] type = RAFT_FIXTURE_DISK -> 1
      [] type = RAFT_FIXTURE_NETWORK -> 2

\* The event of Phase 2: the lowest time T, then the lowest server index,
\* then the kind of the highest precedence.
PickEvent_KindFirst(E) ==
    LET T == MinOf({e.at : e \in E})
        atT == {e \in E : e.at = T}
        r == MinOf({KindRank(e.type) : e \in atT})
        ofR == {e \in atT : KindRank(e.type) = r}
    IN  CHOOSE e \in ofR : \A x \in ofR : e.server <= x.server

PickEvent(E) ==
    LET T == MinOf({e.at : e \in E})
        atT == {e \in E : e.at = T}
        s == MinOf({e.server : e \in atT})
        onS == {e \in atT : e.server = s}
        r == MinOf({KindRank(e.type) : e \in onS})
    IN  CHOOSE e \in onS : KindRank(e.type) = r

\* Phase 1 candidates: every entry of every server's send queue.
SendEvents ==
    UNION {{[server |-> i, idx |-> k, at |-> sendq[i][k].at] :
                k \in 1 .. Len(sendq[i])} : i \in Servers}

PickSend_Newest(S) ==
    CHOOSE e \in S : \A x \in S :
        \/ e.at > x.at
        \/ e.at = x.at /\ e.server < x.server
        \/ e.at = x.at /\ e.server = x.server /\ e.idx <= x.idx

\* The globally oldest send: lowest completion time, then lowest server
\* index, then queue order.
PickSend(S) ==
    LET T == MinOf({e.at : e \in S})
        atT == {e \in S : e.at = T}
        s == MinOf({e.server : e \in atT})
        k == MinOf({e.idx : e \in {x \in atT : x.server = s}})
    IN  CHOOSE e \in atT : e.server = s /\ e.idx = k

\* Phase 1 fires when some send completes no later than the next candidate
\* of Phase 2.
Phase1Fires ==
    /\ SendEvents # {}
    /\ IF Phase2Events = {} THEN TRUE
       ELSE \E e \in SendEvents : e.at <= MinOf({x.at : x \in Phase2Events})

\* On send completion the message moves to transit when the edge is
\* connected or saturated and the destination is alive; the send
\* completions of a killed server fire, but their deliveries drop.
MovesToTransit_DeadSender(i, j) == conn[i][j] # "disconnected" /\ alive[j]

MovesToTransit(i, j) == conn[i][j] # "disconnected" /\ alive[j] /\ alive[i]

DeliveryTime(i, completion) == completion + Half(network_latency[i])

\* A transit entry popped by Phase 2 is delivered if still deliverable.
Deliverable_IgnoreAlive(i, j) == ~EdgeDropped(i, j)

Deliverable(i, j) == alive[j] /\ ~EdgeDropped(i, j)

MarkPurged(ms) == [m \in MsgIds |-> IF m \in PurgedIds THEN "dropped" ELSE ms[m]]

\* The event recorded by a step: the server whose queue or timer held the
\* dispatched event, and its type.
EventOf(i, type) == [server_index |-> i, type |-> type]

SendEventType_Disk == RAFT_FIXTURE_DISK

\* A send completion is classified as a NETWORK event.
SendEventType == RAFT_FIXTURE_NETWORK

\* ------------------------------------------------------ leader detection
\* The Raft instances are external: an instance that was bootstrapped may
\* react to a tick or to a received message by reporting any state, term
\* and log; an instance that was not bootstrapped has no configuration and
\* stays a follower.
RaftReacts(i) ==
    IF bootstrapped
    THEN \E st \in RaftStates : \E t \in Terms : \E l \in Logs :
            /\ raft_state' = [raft_state EXCEPT ![i] = st]
            /\ raft_term' = [raft_term EXCEPT ![i] = t]
            /\ raft_log' = [raft_log EXCEPT ![i] = l]
    ELSE UNCHANGED << raft_state, raft_term, raft_log >>

RaftIdle == UNCHANGED << raft_state, raft_term, raft_log >>

ServerId(i) == i + 1

IsPrefix(a, b) ==
    /\ Len(a) <= Len(b)
    /\ \A k \in 1 .. Len(a) : a[k] = b[k]

\* Phase 3 scans the live servers for the ones in leader state.
LiveLeaders(st) == {i \in Servers : alive[i] /\ st[i] = "leader"}

ElectionSafetyBroken_LiveOnly(st, tm) ==
    \E i \in LiveLeaders(st) : \E j \in LiveLeaders(st) \ {i} : tm[j] = tm[i]

\* Election Safety: no other server is in leader state for the term of a
\* live leader.
ElectionSafetyBroken(st, tm) ==
    \E i \in LiveLeaders(st) : \E j \in Servers \ {i} :
        st[j] = "leader" /\ tm[j] = tm[i]

\* The leader of the highest term is stable when every server it can reach
\* has acknowledged it and those servers, with the leader, are a majority.
Acknowledges(st, tm, j, l) == st[j] = "follower" /\ tm[j] = tm[l]

Reached(l) == {j \in Servers \ {l} : alive[j] /\ conn[l][j] = "connected"}

StableLeader(st, tm, l) ==
    /\ \A j \in Reached(l) : Acknowledges(st, tm, j, l)
    /\ 2 * (Cardinality(Reached(l)) + 1) > n

DetectLeader(st, tm) ==
    IF LiveLeaders(st) = {} THEN 0
    ELSE LET l == CHOOSE i \in LiveLeaders(st) :
                      \A j \in LiveLeaders(st) : tm[j] <= tm[i]
         IN  IF StableLeader(st, tm, l) THEN ServerId(l) ELSE 0

\* Leader Append-Only is checked when there is a stable leader and it has
\* not changed with respect to the previous call to step.
AppendOnlyChecked_AnyLeader(id) == id # 0

AppendOnlyChecked(id) == id # 0 /\ id = leader_id

\* Phases 3 and 4 of a step, on the states the Raft instances report after
\* the callback: detect the stable leader, checking Election Safety and
\* Leader Append-Only, then copy the log of the stable leader.  A violation
\* aborts the run.
LeaderPhases ==
    /\ fatal = "none"
    /\ bootstrapped' = bootstrapped
    /\ IF ElectionSafetyBroken(raft_state', raft_term')
       THEN /\ fatal' = "election safety"
            /\ UNCHANGED << leader_id, log >>
       ELSE LET id == DetectLeader(raft_state', raft_term')
            IN  /\ leader_id' = id
                /\ IF AppendOnlyChecked(id) /\ ~IsPrefix(log, raft_log'[id - 1])
                   THEN /\ fatal' = "leader append-only"
                        /\ log' = log
                   ELSE /\ fatal' = "none"
                        /\ log' = IF id # 0 THEN raft_log'[id - 1] ELSE log

\* The time up to which a run is explored.
Horizon == IF bootstrapped THEN MaxLeaderTime ELSE MaxTime

StepFrame ==
    UNCHANGED << n, alive, armed, election_timeout, network_latency,
                 disk_latency, conn, fault, rc, nmsg, nappend, nctl, until >>

StepSend ==
    /\ Phase1Fires
    /\ LET e == PickSend(SendEvents)
           i == e.server
           m == sendq[i][e.idx]
           moved == MovesToTransit(i, m.dest)
       IN  /\ m.at <= Horizon
           /\ time' = m.at
           /\ sendq' = [sendq EXCEPT ![i] = Remove(@, e.idx)]
           /\ transit' = [j \in Slots |->
                 IF j = i /\ moved
                 THEN Append(Scheduled(j),
                             [id |-> m.id, dest |-> m.dest,
                              at |-> DeliveryTime(i, m.at),
                              sub |-> m.sub, lat |-> m.lat])
                 ELSE Scheduled(j)]
           /\ n_send' = [n_send EXCEPT ![i] = @ + 1]
           /\ mstate' = [MarkPurged(mstate) EXCEPT
                 ![m.id] = IF moved THEN "transit" ELSE "dropped"]
           /\ fired' = << Callback("send", i, m.id, "ok", i, m.sub, m.lat) >>
           /\ event' = EventOf(i, SendEventType)
    /\ UNCHANGED << next_expiry, appendq, n_recv >>
    /\ StepFrame
    /\ RaftIdle
    /\ LeaderPhases

Phase2Picks(type) ==
    /\ ~Phase1Fires
    /\ Phase2Events # {}
    /\ IF Phase2Events = {} THEN FALSE
       ELSE /\ PickEvent(Phase2Events).type = type
            /\ PickEvent(Phase2Events).at <= Horizon

StepTick ==
    /\ Phase2Picks(RAFT_FIXTURE_TICK)
    /\ LET e == PickEvent(Phase2Events)
           i == e.server
       IN  /\ time' = e.at
           /\ next_expiry' = [next_expiry EXCEPT ![i] = @ + TickPeriod]
           /\ fired' = << Callback("tick", i, 0, "ok", i, 0, 0) >>
           /\ event' = EventOf(i, RAFT_FIXTURE_TICK)
           /\ RaftReacts(i)
    /\ transit' = [j \in Slots |-> Scheduled(j)]
    /\ mstate' = MarkPurged(mstate)
    /\ UNCHANGED << sendq, appendq, n_send, n_recv >>
    /\ StepFrame
    /\ LeaderPhases

StepDisk ==
    /\ Phase2Picks(RAFT_FIXTURE_DISK)
    /\ LET e == PickEvent(Phase2Events)
           i == e.server
           k == FirstAt(appendq[i])
           a == appendq[i][k]
       IN  /\ time' = e.at
           /\ appendq' = [appendq EXCEPT ![i] = Remove(@, k)]
           /\ fired' = << Callback("disk", i, a.id,
                                   IF a.failing THEN "RAFT_IOERR" ELSE "ok",
                                   i, a.sub, a.lat) >>
           /\ event' = EventOf(i, RAFT_FIXTURE_DISK)
    /\ transit' = [j \in Slots |-> Scheduled(j)]
    /\ mstate' = MarkPurged(mstate)
    /\ UNCHANGED << next_expiry, sendq, n_send, n_recv >>
    /\ StepFrame
    /\ RaftIdle
    /\ LeaderPhases

StepNetwork ==
    /\ Phase2Picks(RAFT_FIXTURE_NETWORK)
    /\ LET e == PickEvent(Phase2Events)
           i == e.server
           q == Scheduled(i)
           k == FirstAt(q)
           m == q[k]
       IN  /\ time' = e.at
           /\ transit' = [j \in Slots |->
                 IF j = i THEN Remove(q, k) ELSE Scheduled(j)]
           /\ event' = EventOf(i, RAFT_FIXTURE_NETWORK)
           /\ IF Deliverable(i, m.dest)
              THEN /\ n_recv' = [n_recv EXCEPT ![m.dest] = @ + 1]
                   /\ fired' = << Callback("recv", m.dest, m.id, "ok", i,
                                           m.sub, m.lat) >>
                   /\ mstate' = [MarkPurged(mstate) EXCEPT
                                     ![m.id] = "delivered"]
                   /\ RaftReacts(m.dest)
              ELSE /\ n_recv' = n_recv
                   /\ fired' = NoCallback
                   /\ mstate' = [MarkPurged(mstate) EXCEPT
                                     ![m.id] = "dropped"]
                   /\ RaftIdle
    /\ UNCHANGED << next_expiry, sendq, appendq, n_send >>
    /\ StepFrame
    /\ LeaderPhases

raft_fixture_step == StepSend \/ StepTick \/ StepDisk \/ StepNetwork

\* ------------------------------------------------------ scenario drivers
\* The stop function of the scenarios: server `arg` has received a message.
Stop(arg) == n_recv[arg] >= 1

\* step_until: record the time of the call, then step while the stop
\* function is false and no more than max_msecs have elapsed.
raft_fixture_step_until(arg, max_msecs) ==
    /\ until.phase = "idle"
    /\ until' = [phase |-> "running", start |-> time,
                 max_msecs |-> max_msecs, arg |-> arg, result |-> FALSE]
    /\ UNCHANGED << time, n, alive, armed, next_expiry, election_timeout,
                    network_latency, disk_latency, conn, event, fired, rc,
                    nctl, bootstrapped, raft_state, raft_term, raft_log,
                    leader_id, log, fatal >>
    /\ UNCHANGED ioVars

StepUntilLoops_NoDeadline ==
    /\ until.phase = "running"
    /\ ~Stop(until.arg)

StepUntilLoops ==
    /\ until.phase = "running"
    /\ ~Stop(until.arg)
    /\ time - until.start <= until.max_msecs

\* The value step_until returns: whether the stop function became true.
StepUntilResult == Stop(until.arg)

StepUntilReturns ==
    /\ until.phase = "running"
    /\ ~StepUntilLoops
    /\ until' = [until EXCEPT !.phase = "returned", !.result = StepUntilResult]
    /\ UNCHANGED << time, n, alive, armed, next_expiry, election_timeout,
                    network_latency, disk_latency, conn, event, fired, rc,
                    nctl, bootstrapped, raft_state, raft_term, raft_log,
                    leader_id, log, fatal >>
    /\ UNCHANGED ioVars

\* ------------------------------------------------------- specification
Control ==
    \/ \E i \in Servers : \E j \in Servers \ {i} :
          \/ raft_fixture_disconnect(i, j)
          \/ raft_fixture_reconnect(i, j)
          \/ raft_fixture_saturate(i, j)
          \/ raft_fixture_desaturate(i, j)
    \/ \E i \in Servers : raft_fixture_kill(i)
    \/ raft_fixture_grow
    \/ \E i \in Servers : \E msecs \in ElectionTimeouts :
          raft_fixture_set_randomized_election_timeout(i, msecs)
    \/ \E i \in Servers : \E msecs \in NetLatencies :
          raft_fixture_set_network_latency(i, msecs)
    \/ \E i \in Servers : \E msecs \in DiskLatencies :
          raft_fixture_set_disk_latency(i, msecs)
    \/ \E i \in Servers : \E d \in FaultDelays : \E r \in FaultRepeats :
          raft_fixture_io_fault(i, d, r)

Submit ==
    \/ \E i \in Servers : \E j \in Servers : SubmitSend(i, j)
    \/ \E i \in Servers : SubmitAppend(i)

Next ==
    \/ Start
    \/ Control
    \/ Submit
    \/ \E i \in Servers : \E op \in {"send", "append"} : SubmitRejected(i, op)
    \/ StepSend
    \/ StepTick
    \/ StepDisk
    \/ StepNetwork

Spec == Init /\ [][Next]_vars

\* A cluster that was bootstrapped and started: every instance holds the
\* initial configuration entry at term 1 and may take part in elections.
InitLeader ==
    /\ time = 0
    /\ n = InitN
    /\ alive = [i \in Slots |-> i < InitN]
    /\ armed = [i \in Slots |-> i < InitN]
    /\ next_expiry = [i \in Slots |-> IF i < InitN THEN TickPeriod ELSE 0]
    /\ election_timeout = [i \in Slots |-> DefaultElectionTimeout(i)]
    /\ network_latency = [i \in Slots |-> DefaultNetworkLatency]
    /\ disk_latency = [i \in Slots |-> DefaultDiskLatency]
    /\ conn = [i \in Slots |-> [j \in Slots |-> "connected"]]
    /\ sendq = [i \in Slots |-> << >>]
    /\ transit = [i \in Slots |-> << >>]
    /\ appendq = [i \in Slots |-> << >>]
    /\ fault = [i \in Slots |-> NoFault]
    /\ n_send = [i \in Slots |-> 0]
    /\ n_recv = [i \in Slots |-> 0]
    /\ event = [server_index |-> 0, type |-> 0]
    /\ fired = NoCallback
    /\ rc = [op |-> "none", server |-> 0, dest |-> 0, code |-> "ok"]
    /\ mstate = [m \in MsgIds |-> "none"]
    /\ nmsg = 0
    /\ nappend = 0
    /\ nctl = 0
    /\ bootstrapped = TRUE
    /\ raft_state = [i \in Slots |-> "follower"]
    /\ raft_term = [i \in Slots |-> 1]
    /\ raft_log = [i \in Slots |-> << 1 >>]
    /\ leader_id = 0
    /\ log = << >>
    /\ fatal = "none"
    /\ until = NoUntil

NextLeader ==
    \/ StepTick
    \/ \E i \in Servers : raft_fixture_kill(i)
    \/ \E i \in Servers : \E j \in Servers \ {i} : raft_fixture_disconnect(i, j)

SpecLeader == InitLeader /\ [][NextLeader]_vars

\* A test that starts the servers and calls step_until once, the Raft
\* instances submitting their requests before and during the call.
StepUntilMsecs == {0, 5, 10, 14}

NextUntil ==
    \/ Start
    \/ Submit
    \/ \E arg \in Servers : \E max_msecs \in StepUntilMsecs :
          raft_fixture_step_until(arg, max_msecs)
    \/ StepUntilLoops /\ StepSend
    \/ StepUntilLoops /\ StepTick
    \/ StepUntilLoops /\ StepDisk
    \/ StepUntilLoops /\ StepNetwork
    \/ StepUntilReturns

SpecUntil == Init /\ [][NextUntil]_vars

\* A test that starts the servers, kills some of them and keeps calling
\* step, the Raft instances submitting their requests in between: a step
\* that stays possible is eventually taken.
NextCrash ==
    \/ Start
    \/ Submit
    \/ \E i \in Servers : \E op \in {"send", "append"} : SubmitRejected(i, op)
    \/ \E i \in Servers : raft_fixture_kill(i)
    \/ StepSend
    \/ StepTick
    \/ StepDisk
    \/ StepNetwork

SpecCrash == Init /\ [][NextCrash]_vars /\ WF_vars(raft_fixture_step)

\* A test that starts the servers, sets latencies to zero and calls
\* step_until once with a deadline before the first tick, the Raft instances
\* submitting their requests before and during the call: the loop of
\* step_until keeps stepping while it may and returns when it may not.
NextProgress ==
    \/ Start
    \/ Submit
    \/ \E i \in Servers : raft_fixture_set_network_latency(i, 0)
    \/ \E i \in Servers : raft_fixture_set_disk_latency(i, 0)
    \/ \E arg \in Servers : \E max_msecs \in StepUntilMsecs :
          max_msecs < TickPeriod /\ raft_fixture_step_until(arg, max_msecs)
    \/ StepUntilLoops /\ StepSend
    \/ StepUntilLoops /\ StepTick
    \/ StepUntilLoops /\ StepDisk
    \/ StepUntilLoops /\ StepNetwork
    \/ StepUntilReturns

SpecProgress ==
    /\ Init
    /\ [][NextProgress]_vars
    /\ WF_vars(StepUntilLoops /\ raft_fixture_step)
    /\ WF_vars(StepUntilReturns)

\* ============================================================== claims
\* A transition is a call to step iff it is neither a control call, nor a
\* submission, nor the start of the servers.
IsStep ==
    /\ nctl' = nctl
    /\ nmsg' = nmsg
    /\ nappend' = nappend
    /\ armed' = armed

\* The event type the header assigns to each callback.
CallbackType(cb) ==
    CASE cb = "tick" -> RAFT_FIXTURE_TICK
      [] cb = "disk" -> RAFT_FIXTURE_DISK
      [] cb \in {"send", "recv"} -> RAFT_FIXTURE_NETWORK

StepHappened == event.type # 0

C2_TimeMonotonic ==
    [][/\ time' >= time
       /\ (time' # time => IsStep)
       /\ \A i \in Slots :
             /\ \A k \in 1 .. Len(sendq'[i]) : sendq'[i][k].sub <= time'
             /\ \A k \in 1 .. Len(appendq'[i]) : appendq'[i][k].sub <= time'
             /\ \A k \in 1 .. Len(transit'[i]) : transit'[i][k].sub <= time']_vars

\* C2 witness: the time has advanced, control calls were made and a request
\* is pending.
C2_Witness ==
    /\ time > 0
    /\ nctl = MaxCtl
    /\ \E i \in Servers : appendq[i] # << >> \/ sendq[i] # << >>

\* C3: when step reaches Phase 2 and several (server, kind) events are
\* scheduled at the same minimum time T, it dispatches the event of the
\* lowest server index among them, and on that server a tick before a disk
\* completion and a disk completion before a network delivery.
C3_TieBreak ==
    [][(IsStep /\ (fired' = << >> \/ fired'[1].cb # "send")) =>
        LET T == MinOf({e.at : e \in Phase2Events})
            atT == {e \in Phase2Events : e.at = T}
        IN  /\ time' = T
            /\ \E e \in atT : /\ e.server = event'.server_index
                              /\ e.type = event'.type
            /\ \A e \in atT :
                  /\ event'.server_index <= e.server
                  /\ e.server = event'.server_index =>
                        /\ e.type = RAFT_FIXTURE_TICK =>
                              event'.type = RAFT_FIXTURE_TICK
                        /\ e.type = RAFT_FIXTURE_DISK =>
                              event'.type # RAFT_FIXTURE_NETWORK]_vars

\* C3 witness: the tick of server 0 was dispatched at a time at which its
\* own disk completion and the tick of server 1 were scheduled too.
C3_Witness ==
    /\ event = [server_index |-> 0, type |-> RAFT_FIXTURE_TICK]
    /\ fired # << >> /\ fired[1].cb = "tick"
    /\ alive[0] /\ alive[1] /\ armed[1]
    /\ next_expiry[1] = time
    /\ appendq[0] # << >> /\ appendq[0][1].at = time

C5_RecvAfterSend ==
    [][/\ IsStep =>
            \A k \in 1 .. Len(fired') :
                fired'[k].cb = "recv" =>
                    /\ mstate[fired'[k].id] = "transit"
                    /\ \A x \in 1 .. Len(fired') :
                          ~(fired'[x].cb = "send" /\ fired'[x].id = fired'[k].id)
       /\ \A i \in Slots : \A k \in 1 .. Len(transit'[i]) :
             mstate'[transit'[i][k].id] = "transit"]_vars

\* C5 witness: a message sent with a latency of 0 or 1 ms was delivered at
\* the virtual time of its submission.
C5_Witness ==
    /\ fired # << >> /\ fired[1].cb = "recv"
    /\ fired[1].lat \in {0, 1}
    /\ fired[1].sub = time
    /\ mstate[fired[1].id] = "delivered"

\* C6: a send submitted by i to j fails synchronously with the
\* no-connection error iff edge i->j is disconnected at submission (a
\* saturated edge admits it); a rejected send enters no queue, never has a
\* send or recv callback fired, and leaves n_send and n_recv unchanged.
C6_RejectedSend ==
    [][/\ nmsg' # nmsg =>
            LET i == rc'.server
                j == rc'.dest
            IN  /\ rc'.op = "send"
                /\ (rc'.code = "RAFT_NOCONNECTION") <=>
                       (conn[i][j] = "disconnected")
                /\ rc'.code = "RAFT_NOCONNECTION" =>
                       /\ sendq' = sendq /\ transit' = transit
                       /\ n_send' = n_send /\ n_recv' = n_recv
                       /\ mstate'[nmsg'] = "rejected"
                /\ rc'.code # "RAFT_NOCONNECTION" =>
                       /\ rc'.code = "ok"
                       /\ Len(sendq'[i]) = Len(sendq[i]) + 1
                       /\ sendq'[i][Len(sendq'[i])].id = nmsg'
                       /\ sendq'[i][Len(sendq'[i])].dest = j
       /\ \A m \in MsgIds : mstate[m] = "rejected" =>
             /\ mstate'[m] = "rejected"
             /\ \A k \in 1 .. Len(fired') : fired'[k].id # m
                                            \/ fired'[k].cb \in {"tick", "disk"}
             /\ \A i \in Slots :
                   /\ \A k \in 1 .. Len(sendq'[i]) : sendq'[i][k].id # m
                   /\ \A k \in 1 .. Len(transit'[i]) : transit'[i][k].id # m]_vars

\* C6 witness: a send was rejected with the no-connection error and the
\* cluster has been stepped.
C6_Witness ==
    /\ rc.op = "send" /\ rc.code = "RAFT_NOCONNECTION"
    /\ conn[rc.server][rc.dest] = "disconnected"
    /\ \E m \in MsgIds : mstate[m] = "rejected"
    /\ StepHappened /\ time > 0

C8_KilledServer ==
    [][/\ \A i \in Servers : ~alive[i] => ~alive'[i]
       /\ IsStep =>
            /\ \A k \in 1 .. Len(fired') :
                  fired'[k].cb \in {"tick", "recv"} => alive[fired'[k].server]
            /\ \A i \in Servers : \A k \in 1 .. Len(transit[i]) :
                  LET m == transit[i][k]
                  IN  (/\ ~alive[m.dest]
                       /\ conn[i][m.dest] = "connected") =>
                          \/ /\ \E x \in 1 .. Len(transit'[i]) :
                                    transit'[i][x] = m
                             /\ mstate'[m.id] = "transit"
                             /\ time' <= m.at
                          \/ /\ \A x \in 1 .. Len(transit'[i]) :
                                    transit'[i][x].id # m.id
                             /\ mstate'[m.id] = "dropped"
                             /\ time' = m.at
                             /\ fired' = << >>]_vars

\* C8 witness: a server was killed with its tick already scheduled and a
\* message on its way to it; the clock has passed the tick's expiry without
\* the tick firing and the message was dropped at its delivery time.
C8_Witness ==
    /\ \E i \in Servers :
          /\ ~alive[i]
          /\ armed[i]
          /\ next_expiry[i] < time
          /\ n_recv[i] = 0
          /\ \A j \in Servers : conn[j][i] = "connected"
    /\ \E m \in MsgIds : mstate[m] = "dropped"
    /\ \A i \in Servers : \A k \in 1 .. Len(fired) :
          fired[k].cb \in {"tick", "recv"} => alive[fired[k].server]
    /\ nctl = 1

\* C9: every delivered message is received at the time its send was
\* submitted plus the network latency of its sender exactly, for every
\* latency value, odd ones such as the default 15 included.
C9_DeliveryTimeExact ==
    \A k \in 1 .. Len(fired) :
        fired[k].cb = "recv" => time = fired[k].sub + fired[k].lat

\* C10: an append submitted while no I/O fault is due gets its callback
\* fired with success in the step whose time equals the submission time
\* plus the disk latency of its server, never earlier and never later; an
\* append submitted while a fault is due gets its callback fired with an I/O
\* error.  This holds for the requests of a server killed after the
\* submission as well.
C10_AppendCompletion ==
    [][/\ nappend' = nappend + 1 =>
            \E i \in Servers :
                LET due == fault[i].delay = 0 /\ fault[i].repeat > 0
                IN  appendq' = [appendq EXCEPT ![i] = Append(@,
                        [id |-> nappend', sub |-> time,
                         lat |-> disk_latency[i], failing |-> due,
                         at |-> IF due THEN time
                                ELSE time + disk_latency[i]])]
       /\ IsStep =>
            /\ \A k \in 1 .. Len(fired') : fired'[k].cb = "disk" =>
                  \E x \in 1 .. Len(appendq[fired'[k].server]) :
                      appendq[fired'[k].server][x].id = fired'[k].id
            /\ \A i \in Servers : \A k \in 1 .. Len(appendq[i]) :
                  LET a == appendq[i][k]
                      pending == \E x \in 1 .. Len(appendq'[i]) :
                                     appendq'[i][x] = a
                      status == IF a.failing THEN "RAFT_IOERR" ELSE "ok"
                  IN    \/ /\ pending
                           /\ ~a.failing => time' <= a.sub + a.lat
                           /\ \A x \in 1 .. Len(fired') :
                                 fired'[x].cb = "disk" => fired'[x].id # a.id
                        \/ /\ ~pending
                           /\ ~a.failing => time' = a.sub + a.lat
                           /\ fired' = << Callback("disk", i, a.id, status,
                                                   i, a.sub, a.lat) >>]_vars

\* C10 witness: an append submitted after the clock had advanced, on a
\* server whose disk latency was changed from the default, has completed
\* with success at its submission time plus that latency.
C10_Witness ==
    /\ Len(fired) = 1
    /\ fired[1].cb = "disk"
    /\ fired[1].status = "ok"
    /\ fired[1].sub > 0
    /\ fired[1].lat \notin {0, DefaultDiskLatency}
    /\ time = fired[1].sub + fired[1].lat
    /\ event.type = RAFT_FIXTURE_DISK

CountCallbacks(f, cb, i) ==
    Cardinality({k \in 1 .. Len(f) :
        f[k].cb = cb /\ f[k].server = i /\ f[k].status = "ok"})

TotalOf(c) == Cardinality({p \in Slots \X (1 .. MaxMsgs) : p[2] <= c[p[1]]})

\* C12: n_send(i) is the number of send callbacks that fired with success on
\* server i and n_recv(j) the number of recv callbacks invoked on server j:
\* both start at 0, a step adds to them exactly the callbacks it invokes,
\* and nothing else (a submission, a rejected send, a dropped message, a
\* control call) changes them; the messages received over all servers never
\* exceed the messages sent.
C12_Counters ==
    [][/\ \A i \in Slots :
            IF IsStep
            THEN /\ raft_fixture_n_send(i)' =
                        raft_fixture_n_send(i) + CountCallbacks(fired', "send", i)
                 /\ raft_fixture_n_recv(i)' =
                        raft_fixture_n_recv(i) + CountCallbacks(fired', "recv", i)
            ELSE /\ raft_fixture_n_send(i)' = raft_fixture_n_send(i)
                 /\ raft_fixture_n_recv(i)' = raft_fixture_n_recv(i)
       /\ TotalOf(n_recv') <= TotalOf(n_send')
       /\ TotalOf(n_send') <=
              Cardinality({m \in MsgIds :
                  mstate'[m] \in {"transit", "delivered", "dropped"}})]_vars

\* C12 witness: two sends were submitted and both send callbacks fired; one
\* message was delivered and the other one dropped, so two messages count
\* as sent and one as received.
C12_Witness ==
    /\ \E m \in MsgIds : mstate[m] = "delivered"
    /\ \E m \in MsgIds : mstate[m] = "dropped"
    /\ TotalOf(n_send) = 2
    /\ TotalOf(n_recv) = 1
    /\ rc.code = "ok"

\* The order the tie-break rules put on the candidates of one phase.
Phase2Before(e, x) ==
    \/ e.at < x.at
    \/ e.at = x.at /\ e.server < x.server
    \/ e.at = x.at /\ e.server = x.server /\ KindRank(e.type) <= KindRank(x.type)

Phase1Before(e, x) ==
    \/ e.at < x.at
    \/ e.at = x.at /\ e.server < x.server
    \/ e.at = x.at /\ e.server = x.server /\ e.idx <= x.idx

\* C13: the next event is a function of the fixture state, so two runs that
\* receive the same calls dispatch the same (time, server_index, type) at
\* every step: in every state the tie-break rules leave exactly one first
\* candidate in each phase that has candidates, at most one kind of
\* dispatch is possible, and the dispatched event is that first candidate.
C13_Deterministic ==
    [][/\ SendEvents' # {} =>
             Cardinality({e \in SendEvents' :
                 \A x \in SendEvents' : Phase1Before(e, x)}) = 1
       /\ Phase2Events' # {} =>
             Cardinality({e \in Phase2Events' :
                 \A x \in Phase2Events' : Phase2Before(e, x)}) = 1
       /\ (IsStep /\ Phase1Fires) =>
             \E e \in SendEvents :
                 /\ \A x \in SendEvents : Phase1Before(e, x)
                 /\ time' = e.at
                 /\ event' = [server_index |-> e.server,
                              type |-> RAFT_FIXTURE_NETWORK]
       /\ (IsStep /\ ~Phase1Fires) =>
             \E e \in Phase2Events :
                 /\ \A x \in Phase2Events : Phase2Before(e, x)
                 /\ time' = e.at
                 /\ event' = [server_index |-> e.server, type |-> e.type]]_vars

\* C13 witness: right after the step that fired a send completion, a disk
\* completion and a network delivery of one server are both due at the
\* current time, so the next step has to choose between them.
C13_Witness ==
    /\ StepHappened
    /\ \E i \in Servers :
          /\ alive[i]
          /\ appendq[i] # << >>
          /\ Scheduled(i) # << >>
          /\ MinAt(appendq[i]) = time
          /\ MinAt(Scheduled(i)) = time
    /\ event.type = RAFT_FIXTURE_NETWORK
    /\ fired # << >>
    /\ fired[1].cb = "send"

\* Two distinct servers report leader state at the same term.
TwoLeaders(st, tm) ==
    \E a \in Servers : \E b \in Servers \ {a} :
        st[a] = "leader" /\ st[b] = "leader" /\ tm[a] = tm[b]

\* C14: Election Safety is checked by every step after the event it
\* dispatches: a step after which two distinct servers report leader state
\* at the same term flags the fatal violation in that very step, so in every
\* state of a run that was not aborted no two servers are leaders at one
\* term, and no step is taken after the violation.
C14_ElectionSafety ==
    [][/\ IsStep => /\ fatal = "none"
                    /\ TwoLeaders(raft_state', raft_term') <=>
                           fatal' = "election safety"
       /\ fatal' = "none" => ~TwoLeaders(raft_state', raft_term')]_vars

\* C14 witness: a leader was killed and the other server then reported
\* leader state at the same term; the step that produced the two leaders
\* flagged the violation.
C14_Witness ==
    /\ fatal = "election safety"
    /\ \E a \in Servers : \E b \in Servers \ {a} :
          /\ ~alive[a] /\ alive[b]
          /\ raft_state[a] = "leader" /\ raft_state[b] = "leader"
          /\ raft_term[a] = raft_term[b]
          /\ event = [server_index |-> b, type |-> RAFT_FIXTURE_TICK]

\* C15: Leader Append-Only is checked in a step exactly when the stable
\* leader after it is the stable leader after the immediately preceding
\* step, and the violation is flagged exactly when that leader's log as it
\* was after the preceding step is not a prefix of its log now; the copy is
\* refreshed by every step that ends with a stable leader, so a step that
\* follows a step without stable leader compares nothing.
C15_LeaderAppendOnly ==
    [][IsStep =>
          /\ fatal' = "leader append-only" <=>
                /\ ~TwoLeaders(raft_state', raft_term')
                /\ leader_id' # 0
                /\ leader_id' = leader_id
                /\ ~IsPrefix(raft_log[leader_id - 1], raft_log'[leader_id - 1])
          /\ (fatal' = "none" /\ leader_id' # 0) =>
                log' = raft_log'[leader_id' - 1]
          /\ (fatal' = "none" /\ leader_id' = 0) => log' = log]_vars

\* C15 witness: the same server was the stable leader after two consecutive
\* steps and its log after the later one does not extend the copy taken
\* after the earlier one; the violation was flagged.
C15_Witness ==
    /\ fatal = "leader append-only"
    /\ leader_id # 0
    /\ alive[leader_id - 1]
    /\ raft_state[leader_id - 1] = "leader"
    /\ ~IsPrefix(log, raft_log[leader_id - 1])

\* C16: step_until returns true exactly when the stop function returned
\* true within max_msecs of virtual time from the call: it returns true
\* without stepping when the function holds at the call, and false when the
\* function first holds after a step that moved the time more than
\* max_msecs past the start.
C16_StepUntilResult ==
    until.phase = "returned" =>
        (until.result <=>
            (Stop(until.arg) /\ time - until.start <= until.max_msecs))

\* Every pending event of the cluster with its phase priority: 0 for a send
\* completion, then tick, disk, network; and the event a step dispatched.
Candidates ==
    {[at |-> e.at, server |-> e.server, rank |-> 0] : e \in SendEvents}
        \cup {[at |-> e.at, server |-> e.server, rank |-> 1 + KindRank(e.type)] :
                 e \in Phase2Events}

DispatchedRank ==
    IF fired' # << >> /\ fired'[1].cb = "send" THEN 0
    ELSE 1 + KindRank(event'.type)

C18_SubmissionOrder ==
    [][(IsStep /\ fired' # << >>) =>
          LET c == fired'[1]
          IN  /\ c.cb = "send" =>
                    \A k \in 1 .. Len(sendq'[c.server]) :
                        sendq'[c.server][k].id > c.id
              /\ c.cb = "disk" =>
                    \A k \in 1 .. Len(appendq'[c.server]) :
                        appendq'[c.server][k].id > c.id]_vars

\* The requests a server has pending, by id.
PendingAppend(i, a) == \E k \in 1 .. Len(appendq[i]) : appendq[i][k].id = a

PendingSend(i, m) == \E k \in 1 .. Len(sendq[i]) : sendq[i][k].id = m

DueAppend(i, a) ==
    \E k \in 1 .. Len(appendq[i]) :
        appendq[i][k].id = a /\ appendq[i][k].at <= MaxTime

DueSend(i, m) ==
    \E k \in 1 .. Len(sendq[i]) : sendq[i][k].id = m /\ sendq[i][k].at <= MaxTime

\* C19: after kill(i), every append and every send that i had submitted
\* before the kill still has its completion callback fired by a later step:
\* no request of a killed server stays queued forever (stated for the
\* requests completing within the explored time), and it is the callback of
\* the request that removes it from its queue; the message
\* of a send completing after the kill is dropped and never delivered; and
\* every new submission by i is rejected, no queue of i growing.
C19_KilledServerRequests ==
    /\ <>[](\A i \in Slots : ~alive[i] =>
                /\ \A a \in 1 .. MaxAppends : ~DueAppend(i, a)
                /\ \A m \in MsgIds : ~DueSend(i, m))
    /\ [][\A i \in Slots : ~alive[i] =>
             /\ Len(sendq'[i]) <= Len(sendq[i])
             /\ Len(appendq'[i]) <= Len(appendq[i])
             /\ Len(transit'[i]) <= Len(transit[i])
             /\ \A a \in 1 .. MaxAppends :
                   (PendingAppend(i, a) /\ ~PendingAppend(i, a)') =>
                       /\ Len(fired') = 1
                       /\ fired'[1].cb = "disk" /\ fired'[1].id = a
                       /\ fired'[1].server = i
             /\ \A m \in MsgIds :
                   (PendingSend(i, m) /\ ~PendingSend(i, m)') =>
                       /\ Len(fired') = 1
                       /\ fired'[1].cb = "send" /\ fired'[1].id = m
                       /\ fired'[1].server = i
                       /\ mstate'[m] = "dropped"
                       /\ \A j \in Slots : \A k \in 1 .. Len(transit'[j]) :
                             transit'[j][k].id # m
             /\ (nctl' # nctl /\ rc'.server = i /\ rc'.op \in {"send", "append"}
                     /\ rc' # rc) => rc'.code = "rejected"]_vars
    /\ [][\A m \in MsgIds : mstate[m] = "dropped" =>
             /\ mstate'[m] = "dropped"
             /\ \A k \in 1 .. Len(fired') :
                   fired'[k].cb = "recv" => fired'[k].id # m]_vars

\* C19 witness: the send callback of a killed server has fired for a send it
\* had submitted before the kill, the message was dropped, and a new
\* submission of that server was rejected.
C19_Witness ==
    /\ rc.code = "rejected" /\ ~alive[rc.server]
    /\ \E m \in MsgIds : mstate[m] = "dropped"
    /\ \E i \in Servers : ~alive[i] /\ n_send[i] > 0

====
